---- MODULE Spec2Model ----
(***************************************************************************)
(* LinearModel (src/linear_model.py): a slope m, an intercept b and an     *)
(* append-only history, with predict / error / loss / gradient / rmse,     *)
(* step and update_history.                                                *)
(*                                                                         *)
(* Numbers.  The program computes in Python floats (IEEE-754 binary64,     *)
(* round to nearest, ties to even; + and * overflow silently to inf,       *)
(* float ** raises OverflowError when a finite operand overflows,          *)
(* inf * 0 and inf - inf are nan).  The model keeps exactly these rules in *)
(* a binary floating-point format of the same shape but reduced size:      *)
(* Prec significand bits instead of 53, a finest spacing of 2^-FracBits    *)
(* instead of 2^-1074, and MaxShift binades above the exact range.         *)
(* A float is a record [c, v]:                                             *)
(*    c = "fin": the number v / Scale (v an integer on the format's grid)  *)
(*    c = "inf": +inf (v = 1) or -inf (v = -1)                             *)
(*    c = "nan": not a number (v = 0)                                      *)
(* and None is [c |-> "none", v |-> 0].  Signed zero is not distinguished. *)
(***************************************************************************)
EXTENDS Integers, Sequences, FiniteSets, TLC

\* ---------------------------------------------------------------- bounds
FracBits == 2
Prec == 4
MaxShift == 5
MaxHist == 2
MaxSteps == 1

Scale == 2 ^ FracBits
MaxFinite == (2 ^ Prec - 1) * 2 ^ MaxShift

\* ---------------------------------------------------------------- floats
Fin(k) == [c |-> "fin", v |-> k]
Fl(n) == Fin(n * Scale)
PosInf == [c |-> "inf", v |-> 1]
NegInf == [c |-> "inf", v |-> -1]
NaN == [c |-> "nan", v |-> 0]
None == [c |-> "none", v |-> 0]
Zero == Fin(0)

Abs(i) == IF i < 0 THEN -i ELSE i
Sgn(i) == IF i < 0 THEN -1 ELSE IF i > 0 THEN 1 ELSE 0
SignedInf(s) == IF s < 0 THEN NegInf ELSE PosInf

\* The spacing 2^s of the grid at magnitude a / den: the least s with
\* a / den < 2^Prec * 2^s, at most MaxShift.
ShiftOf(a, den) ==
  IF \E s \in 0..MaxShift : a < (2 ^ Prec) * (2 ^ s) * den
  THEN CHOOSE s \in 0..MaxShift :
         /\ a < (2 ^ Prec) * (2 ^ s) * den
         /\ \A t \in 0..(s - 1) : ~(a < (2 ^ Prec) * (2 ^ t) * den)
  ELSE MaxShift

\* num / den (den > 0) rounded to the nearest float, ties to even; a rounded
\* magnitude beyond MaxFinite is an overflow to the infinity of that sign.
RoundQ(num, den) ==
  LET a == Abs(num)
      u == 2 ^ ShiftOf(a, den)
      q == a \div (den * u)
      r == a % (den * u)
      up == (2 * r > den * u) \/ (2 * r = den * u /\ q % 2 = 1)
      k == (IF up THEN q + 1 ELSE q) * u
  IN  IF k > MaxFinite THEN SignedInf(num) ELSE Fin(Sgn(num) * k)

\* The exact grid integer k is a float of the format (no rounding needed).
Representable(k) == RoundQ(k, 1) = Fin(k)

FNeg(x) ==
  CASE x.c = "fin" -> Fin(-x.v)
    [] x.c = "inf" -> SignedInf(-x.v)
    [] OTHER -> NaN

\* float + float
FAdd(x, y) ==
  CASE x.c = "nan" \/ y.c = "nan" -> NaN
    [] x.c = "inf" /\ y.c = "inf" -> IF x.v = y.v THEN x ELSE NaN
    [] x.c = "inf" -> x
    [] y.c = "inf" -> y
    [] OTHER -> RoundQ(x.v + y.v, 1)

\* float - float
FSub(x, y) == FAdd(x, FNeg(y))

\* float * float
FMul(x, y) ==
  CASE x.c = "nan" \/ y.c = "nan" -> NaN
    [] x.c = "inf" \/ y.c = "inf" ->
         IF x.v = 0 \/ y.v = 0 THEN NaN ELSE SignedInf(Sgn(x.v) * Sgn(y.v))
    [] OTHER -> RoundQ(x.v * y.v, Scale)

\* Results of an operation that may raise: exc = "none" and the value, or the
\* exception's class and no value.
Ok(val) == [exc |-> "none", val |-> val]
Raise(e) == [exc |-> e, val |-> NaN]

\* float ** 2: the correctly rounded square; OverflowError when a finite
\* operand's square overflows (inf and nan pass through, an underflow
\* rounds silently towards zero).
FPow2(x) ==
  CASE x.c = "nan" -> Ok(NaN)
    [] x.c = "inf" -> Ok(PosInf)
    [] OTHER ->
         LET p == RoundQ(x.v * x.v, Scale)
         IN  IF p.c = "inf" THEN Raise("OverflowError") ELSE Ok(p)

\* floor(sqrt(n)) by bisection on [lo, hi), lo^2 <= n < hi^2.
RECURSIVE ISqrtIn(_, _, _)
ISqrtIn(n, lo, hi) ==
  IF hi - lo <= 1 THEN lo
  ELSE LET mid == (lo + hi) \div 2
       IN  IF mid * mid <= n THEN ISqrtIn(n, mid, hi) ELSE ISqrtIn(n, lo, mid)

ISqrt(n) == ISqrtIn(n, 0, n + 1)

\* math.sqrt: the correctly rounded square root; ValueError below zero.
FSqrt(x) ==
  CASE x.c = "nan" -> Ok(NaN)
    [] x.c = "inf" -> IF x.v > 0 THEN Ok(PosInf) ELSE Raise("ValueError")
    [] x.v < 0 -> Raise("ValueError")
    [] OTHER ->
         LET n == x.v * Scale
             u == 2 ^ ShiftOf(ISqrt(n), 1)
             lo == (ISqrt(n) \div u) * u
             up == (4 * n > (2 * lo + u) * (2 * lo + u))
                   \/ (4 * n = (2 * lo + u) * (2 * lo + u) /\ (lo \div u) % 2 = 1)
         IN  Ok(Fin(IF up THEN lo + u ELSE lo))

\* Mutant of FDivInt: a zero divisor is let through.
FDivInt_nocheck(x, n) ==
  CASE n = 0 -> Ok(x)
    [] x.c = "fin" -> Ok(RoundQ(x.v, n))
    [] OTHER -> Ok(x)

\* float / int: ZeroDivisionError for a zero divisor (n >= 0 here: a length).
FDivInt(x, n) ==
  CASE n = 0 -> Raise("ZeroDivisionError")
    [] x.c = "fin" -> Ok(RoundQ(x.v, n))
    [] OTHER -> Ok(x)

\* Python truthiness of an optional float: None and zero are falsy.
Falsy(x) == x.c = "none" \/ (x.c = "fin" /\ x.v = 0)

\* ---------------------------------------------------------------- inputs
\* Arguments the constructor is called with, per parameter.
CtorM == {None, Zero, Fl(2), Fl(4)}
CtorB == {None, Zero, Fl(1)}
\* Values random.random() can return: floats in [0, 1).
RandomVals == {Zero, Fin(Scale - 1)}
\* predict's x; the observations (x, y); update_history's (x, y, epoch, message).
NoMessage == "<None>"
Xs == {Fl(0), Fl(3)}
Obs == {<<Fl(3), Fl(10)>>, <<Fl(0), Fl(-11)>>}
UpdArgs == {<<Fl(3), Fl(10), 2, "m">>, <<Fl(0), Fl(-11), 0, NoMessage>>}
\* step's (m_step, b_step): a small step, and the largest float as a step.
StepArgs == {<<Fin(Scale \div 4), Fin(-(Scale \div 4))>>, <<Fin(MaxFinite), Fl(0)>>}
\* rmse's xlist and ylist.
RmseXs == {<<>>, <<Fl(1)>>, <<Fl(1), Fl(3)>>}
RmseYs == {<<>>, <<Fl(4)>>, <<Fl(4), Fl(8)>>}

\* ---------------------------------------------------------------- state
VARIABLES
  m,        \* self.m
  b,        \* self.b
  history,  \* self.history
  op,       \* the method called last ("__init__" after construction)
  args,     \* its arguments
  out,      \* what it returned or raised
  pre,      \* self.m and self.b as they were when it was called
  steps     \* how many step calls were made (bounds the exploration)

vars == <<m, b, history, op, args, out, pre, steps>>

Self == [m |-> m, b |-> b, history |-> history]

\* ---------------------------------------------------------------- methods
\* Mutant of OrRandom: only an absent value draws (`value if value is not
\* None else random.random()`).
OrRandom_present(value, draw) == IF value.c = "none" THEN draw ELSE value

\* `value or random.random()`: the value when truthy, else the next draw.
OrRandom(value, draw) == IF Falsy(value) THEN draw ELSE value

\* __init__(m, b) with the values random.random() returns on its first and
\* second call; the second `or` draws first when the first one did not draw.
init(ma, ba, draws) ==
  [m |-> OrRandom(ma, draws[1]),
   b |-> OrRandom(ba, IF Falsy(ma) THEN draws[2] ELSE draws[1]),
   history |-> <<>>]

predict(self, x) == FAdd(FMul(self.m, x), self.b)

error(self, x, y) == FSub(predict(self, x), y)

\* Mutant of gradient: the derivative with its factor 2.
gradient_doubled(self, x, y) ==
  <<FMul(Fl(2), FMul(x, error(self, x, y))), FMul(Fl(2), error(self, x, y))>>

gradient(self, x, y) == <<FMul(x, error(self, x, y)), error(self, x, y)>>

\* May raise OverflowError.
loss(self, x, y) == FPow2(error(self, x, y))

Min(i, j) == IF i < j THEN i ELSE j

\* zip(xlist, ylist): pairs up to the shorter length.
Zip(xs, ys) == [i \in 1..Min(Len(xs), Len(ys)) |-> <<xs[i], ys[i]>>]

\* sum(...) of floats from the left, starting at 0.
RECURSIVE SumSeq(_)
SumSeq(s) ==
  IF Len(s) = 0 THEN Zero ELSE FAdd(SumSeq(SubSeq(s, 1, Len(s) - 1)), s[Len(s)])

\* Mutant of rmse: the textbook formula, sqrt(sum / n).
rmse_textbook(self, xs, ys) ==
  LET z == Zip(xs, ys)
      ls == [i \in 1..Len(z) |-> loss(self, z[i][1], z[i][2])]
  IN  IF \E i \in 1..Len(ls) : ls[i].exc # "none"
      THEN Raise("OverflowError")
      ELSE LET mean == FDivInt(SumSeq([i \in 1..Len(ls) |-> ls[i].val]), Len(xs))
           IN  IF mean.exc # "none" THEN mean ELSE FSqrt(mean.val)

\* math.sqrt(sum(list(loss(x, y) for x, y in zip(xlist, ylist)))) / len(xlist)
rmse(self, xs, ys) ==
  LET z == Zip(xs, ys)
      ls == [i \in 1..Len(z) |-> loss(self, z[i][1], z[i][2])]
  IN  IF \E i \in 1..Len(ls) : ls[i].exc # "none"
      THEN Raise("OverflowError")
      ELSE LET root == FSqrt(SumSeq([i \in 1..Len(ls) |-> ls[i].val]))
           IN  IF root.exc # "none" THEN root ELSE FDivInt(root.val, Len(xs))

\* Mutant of step: the steps replace the parameters (`=` for `+=`).
step_assign(self, m_step, b_step) == [self EXCEPT !.m = m_step, !.b = b_step]

\* Mutant of step: a step also starts the history afresh.
step_reset(self, m_step, b_step) ==
  [self EXCEPT !.m = FAdd(@, m_step), !.b = FAdd(@, b_step), !.history = <<>>]

step(self, m_step, b_step) ==
  [self EXCEPT !.m = FAdd(@, m_step), !.b = FAdd(@, b_step)]

\* Mutant of Record: the error taken as actual minus prediction.
Record_flipped(self, x, y, epoch, message) ==
  [m |-> self.m, b |-> self.b, observation |-> <<x, y>>,
   prediction |-> predict(self, x), error |-> FSub(y, predict(self, x)),
   loss |-> loss(self, x, y).val, epoch |-> epoch, message |-> message]

\* The dictionary update_history builds; loss is evaluated last and may raise.
Record(self, x, y, epoch, message) ==
  [m |-> self.m, b |-> self.b, observation |-> <<x, y>>,
   prediction |-> predict(self, x), error |-> error(self, x, y),
   loss |-> loss(self, x, y).val, epoch |-> epoch, message |-> message]

\* Mutant of update_history: the record is inserted at the front.
update_history_prepend(self, x, y, epoch, message) ==
  IF loss(self, x, y).exc # "none"
  THEN self
  ELSE [self EXCEPT !.history = <<Record(self, x, y, epoch, message)>> \o @]

\* The model after update_history: one record appended, or, when building
\* the record raises, nothing changed.
update_history(self, x, y, epoch, message) ==
  IF loss(self, x, y).exc # "none"
  THEN self
  ELSE [self EXCEPT !.history = Append(@, Record(self, x, y, epoch, message))]

\* ---------------------------------------------------------------- actions
Init ==
  \E ma \in CtorM, ba \in CtorB, d1 \in RandomVals, d2 \in RandomVals :
    LET s == init(ma, ba, <<d1, d2>>)
    IN  /\ m = s.m
        /\ b = s.b
        /\ history = s.history
        /\ op = "__init__"
        /\ args = <<ma, ba>>
        /\ out = Ok(<<d1, d2>>)
        /\ pre = [m |-> s.m, b |-> s.b]
        /\ steps = 0

Predict ==
  \E x \in Xs :
    /\ op' = "predict"
    /\ args' = <<x>>
    /\ out' = Ok(predict(Self, x))
    /\ pre' = [m |-> m, b |-> b]
    /\ UNCHANGED <<m, b, history, steps>>

Error ==
  \E o \in Obs :
    /\ op' = "error"
    /\ args' = o
    /\ out' = Ok(error(Self, o[1], o[2]))
    /\ pre' = [m |-> m, b |-> b]
    /\ UNCHANGED <<m, b, history, steps>>

Gradient ==
  \E o \in Obs :
    /\ op' = "gradient"
    /\ args' = o
    /\ out' = Ok(gradient(Self, o[1], o[2]))
    /\ pre' = [m |-> m, b |-> b]
    /\ UNCHANGED <<m, b, history, steps>>

Loss ==
  \E o \in Obs :
    /\ op' = "loss"
    /\ args' = o
    /\ out' = loss(Self, o[1], o[2])
    /\ pre' = [m |-> m, b |-> b]
    /\ UNCHANGED <<m, b, history, steps>>

Rmse ==
  \E xs \in RmseXs, ys \in RmseYs :
    /\ op' = "rmse"
    /\ args' = <<xs, ys>>
    /\ out' = rmse(Self, xs, ys)
    /\ pre' = [m |-> m, b |-> b]
    /\ UNCHANGED <<m, b, history, steps>>

Step ==
  \E a \in StepArgs :
    /\ steps < MaxSteps
    /\ LET s == step(Self, a[1], a[2])
       IN  /\ m' = s.m
           /\ b' = s.b
           /\ history' = s.history
    /\ op' = "step"
    /\ args' = a
    /\ out' = Ok(None)
    /\ pre' = [m |-> m, b |-> b]
    /\ steps' = steps + 1

UpdateHistory ==
  \E a \in UpdArgs :
    /\ Len(history) < MaxHist
    /\ LET s == update_history(Self, a[1], a[2], a[3], a[4])
       IN  /\ m' = s.m
           /\ b' = s.b
           /\ history' = s.history
    /\ op' = "update_history"
    /\ args' = a
    /\ out' = IF loss(Self, a[1], a[2]).exc # "none"
              THEN Raise("OverflowError") ELSE Ok(None)
    /\ pre' = [m |-> m, b |-> b]
    /\ UNCHANGED steps

Next ==
  \/ Predict
  \/ Error
  \/ Gradient
  \/ Loss
  \/ Rmse
  \/ Step
  \/ UpdateHistory

Spec == Init /\ [][Next]_vars

\* ---------------------------------------------------------------- claims
\* Comparisons of floats as Python makes them: nan compares false.
FGe0(x) == (x.c = "fin" /\ x.v >= 0) \/ (x.c = "inf" /\ x.v > 0)
FAbs(x) == IF x.c = "nan" THEN NaN ELSE IF x.c = "inf" THEN PosInf ELSE Fin(Abs(x.v))
\* x + y of two finite floats is a float: the addition does not round.
ExactSum(x, y) == x.c = "fin" /\ y.c = "fin" /\ Representable(x.v + y.v)

\* C1 (as claimed): every update_history(x, y, epoch, message) appends exactly
\* one record at the end of history, holding the call-time m and b, the
\* observation, epoch and message and predict / error / loss of the call-time
\* parameters, and leaves m, b and the earlier records as they were.
C1_UpdateHistoryAppends ==
  [][op' = "update_history" =>
       /\ history' = Append(history,
            [m |-> m, b |-> b, observation |-> <<args'[1], args'[2]>>,
             prediction |-> predict(Self, args'[1]),
             error |-> error(Self, args'[1], args'[2]),
             loss |-> loss(Self, args'[1], args'[2]).val,
             epoch |-> args'[3], message |-> args'[4]])
       /\ m' = m
       /\ b' = b]_vars

\* Two steps s1 then s2, and the single step with the summed arguments.
TwoSteps(self, s1, s2) == step(step(self, s1[1], s1[2]), s2[1], s2[2])
SummedStep(self, s1, s2) == step(self, FAdd(s1[1], s2[1]), FAdd(s1[2], s2[2]))

\* C2 (as claimed): step(a, b) sets m to m + a and b to b + b_step, and from
\* every state two steps leave the same m and b as one step with the summed
\* arguments.
C2_StepAdditive ==
  /\ op = "step" => (m = FAdd(pre.m, args[1]) /\ b = FAdd(pre.b, args[2]))
  /\ \A s1 \in StepArgs, s2 \in StepArgs :
       /\ TwoSteps(Self, s1, s2).m = SummedStep(Self, s1, s2).m
       /\ TwoSteps(Self, s1, s2).b = SummedStep(Self, s1, s2).b

\* C2 (amended): step(a, b) sets m to the float sum m + a, which is the exact
\* sum whenever that is a float, and b likewise; two steps agree with the
\* summed step on a parameter whenever the three additions involved
\* (old + a1, (old + a1) + a2 and a1 + a2) are exact.
C2_StepAdditiveWhenExact ==
  /\ op = "step" =>
       /\ m = FAdd(pre.m, args[1])
       /\ b = FAdd(pre.b, args[2])
       /\ ExactSum(pre.m, args[1]) => m = Fin(pre.m.v + args[1].v)
       /\ ExactSum(pre.b, args[2]) => b = Fin(pre.b.v + args[2].v)
  /\ \A s1 \in StepArgs, s2 \in StepArgs :
       /\ (ExactSum(m, s1[1]) /\ ExactSum(FAdd(m, s1[1]), s2[1])
             /\ ExactSum(s1[1], s2[1]))
          => /\ TwoSteps(Self, s1, s2).m = SummedStep(Self, s1, s2).m
             /\ TwoSteps(Self, s1, s2).m = Fin(m.v + s1[1].v + s2[1].v)
       /\ (ExactSum(b, s1[2]) /\ ExactSum(FAdd(b, s1[2]), s2[2])
             /\ ExactSum(s1[2], s2[2]))
          => /\ TwoSteps(Self, s1, s2).b = SummedStep(Self, s1, s2).b
             /\ TwoSteps(Self, s1, s2).b = Fin(b.v + s1[2].v + s2[2].v)

\* C2 witness: a step with nonzero arguments has been taken and two further
\* nonzero steps from here add exactly.
C2_Witness ==
  /\ op = "step"
  /\ args[1].v # 0
  /\ \E s1 \in StepArgs, s2 \in StepArgs :
       /\ s1[1].v # 0 /\ s2[1].v # 0
       /\ ExactSum(m, s1[1]) /\ ExactSum(FAdd(m, s1[1]), s2[1])
       /\ ExactSum(s1[1], s2[1])

\* C3 (as claimed): rmse with sequences of different lengths raises.
C3_RmseRejectsUnequalLengths ==
  (op = "rmse" /\ Len(args[1]) # Len(args[2])) => out.exc # "none"

\* C4: history is append-only: no step of any operation shortens it or
\* changes a record already in it.
C4_HistoryAppendOnly ==
  [][/\ Len(history') >= Len(history)
     /\ \A i \in 1..Len(history) : history'[i] = history[i]]_vars

\* C4 witness: two records, the first taken before a step changed m.
C4_Witness == Len(history) = 2 /\ history[1].m # m

\* Each record agrees with the values it captured.
RecordConsistent(r) ==
  /\ r.prediction = FAdd(FMul(r.m, r.observation[1]), r.b)
  /\ r.error = FSub(r.prediction, r.observation[2])
  /\ FPow2(r.error) = Ok(r.loss)

InUnit(x) == x.c = "fin" /\ 0 <= x.v /\ x.v < Scale

\* C6: after construction, a parameter whose argument was absent or zero
\* holds a value drawn from random.random(), in [0, 1); a parameter whose
\* argument was nonzero holds the argument; neither is left unset.
C6_CtorDefaults ==
  op = "__init__" =>
    /\ (args[1] = None \/ args[1] = Zero) => (m = out.val[1] /\ InUnit(m))
    /\ (args[1] # None /\ args[1] # Zero) => m = args[1]
    /\ (args[2] = None \/ args[2] = Zero)
         => (b \in {out.val[1], out.val[2]} /\ InUnit(b))
    /\ (args[2] # None /\ args[2] # Zero) => b = args[2]
    /\ m # None /\ b # None
    /\ history = <<>>

\* C6 witness: constructed with m = 0.0 and b = 1: m was drawn (and is not
\* zero), b was kept.
C6_Witness ==
  /\ op = "__init__"
  /\ args = <<Zero, Fl(1)>>
  /\ m # Zero
  /\ b = Fl(1)

\* The exact quotient p / Scale of a product of grid integers is a float.
ExactProd(p) == p % Scale = 0 /\ Representable(p \div Scale)

\* C7: gradient(x, y) returns (x * e, e) with e = m * x + b - y, without a
\* factor 2: as floats always, as exact numbers whenever no operation rounds,
\* and (-9, -3) for m = 2, b = 1 at (3, 10).
C7_Gradient ==
  op = "gradient" =>
    LET x == args[1]
        y == args[2]
        e == FSub(FAdd(FMul(m, x), b), y)
        mx == (m.v * x.v) \div Scale
        ev == mx + b.v - y.v
    IN  /\ out = Ok(<<FMul(x, e), e>>)
        /\ (/\ m.c = "fin" /\ b.c = "fin"
            /\ ExactProd(m.v * x.v)
            /\ Representable(mx + b.v)
            /\ Representable(ev)
            /\ ExactProd(x.v * ev))
           => out.val = <<Fin((x.v * ev) \div Scale), Fin(ev)>>
        /\ (m = Fl(2) /\ b = Fl(1) /\ x = Fl(3) /\ y = Fl(10))
           => out.val = <<Fl(-9), Fl(-3)>>

\* C7 witness: gradient(3, 10) of the model m = 2, b = 1 returned (-9, -3).
C7_Witness ==
  /\ op = "gradient"
  /\ m = Fl(2) /\ b = Fl(1)
  /\ args = <<Fl(3), Fl(10)>>
  /\ out.val = <<Fl(-9), Fl(-3)>>

\* rmse's arguments in the state after a call of it, the errors and squared
\* errors of the paired points, and the float sum of the squares.
RmseN == Len(args[1])
RmseErr(i) == error(Self, args[1][i], args[2][i])
RmseSq(i) == FPow2(RmseErr(i))
RmseTotal == SumSeq([i \in 1..RmseN |-> RmseSq(i).val])
RmseCalled == op = "rmse" /\ Len(args[1]) = Len(args[2]) /\ Len(args[1]) > 0

\* (r * n)^2 = total as numbers (an infinite or nan total: r is the same).
RmseIdentity(r, n, total) ==
  IF r.c = "fin" /\ total.c = "fin"
  THEN (r.v * n) * (r.v * n) = total.v * Scale
  ELSE r = total

\* C8 (as claimed): for equal-length nonempty sequences rmse returns r >= 0
\* with (r * n)^2 = the sum of the losses, and for one point r = |error|.
C8_RmseExact ==
  RmseCalled =>
    /\ out.exc = "none"
    /\ FGe0(out.val)
    /\ RmseIdentity(out.val, RmseN, RmseTotal)
    /\ RmseN = 1 => out.val = FAbs(RmseErr(1))

\* The square of the error e neither overflows nor underflows.
SquareInRange(e) ==
  e.c = "fin" => (FPow2(e).exc = "none"
                  /\ (e.v = 0 \/ e.v * e.v >= (2 ^ (Prec - 1)) * Scale))

\* C8 (amended): for equal-length nonempty sequences rmse raises
\* OverflowError when the square of some error overflows; otherwise it
\* returns r = sqrt(total) / n with the sum, root and quotient each rounded
\* to a float, r >= 0 or nan; (r * n)^2 = total holds when the total is the
\* square of a float that n divides; and for one point r = |error| when the
\* square of the error does not underflow.
C8_RmseRounded ==
  RmseCalled =>
    IF \E i \in 1..RmseN : RmseSq(i).exc # "none"
    THEN out.exc = "OverflowError"
    ELSE LET r == out.val
             s == ISqrt(RmseTotal.v * Scale)
         IN  /\ out.exc = "none"
             /\ FSqrt(RmseTotal).exc = "none"
             /\ out = FDivInt(FSqrt(RmseTotal).val, RmseN)
             /\ r.c = "nan" \/ FGe0(r)
             /\ (RmseTotal.c = "fin" /\ s * s = RmseTotal.v * Scale /\ s % RmseN = 0)
                => (r.c = "fin" /\ r.v * RmseN = s
                    /\ RmseIdentity(r, RmseN, RmseTotal))
             /\ (RmseN = 1 /\ SquareInRange(RmseErr(1))) => r = FAbs(RmseErr(1))

\* C8 witness: rmse of two points returned a finite positive r whose
\* (r * n)^2 is not the total: the root or the quotient was rounded.
C8_Witness ==
  /\ RmseCalled
  /\ RmseN = 2
  /\ out.exc = "none"
  /\ out.val.c = "fin" /\ out.val.v > 0
  /\ RmseTotal.c = "fin"
  /\ ~RmseIdentity(out.val, RmseN, RmseTotal)

\* C9: rmse of empty sequences fails with ZeroDivisionError and leaves m, b
\* and history unchanged.
C9_RmseEmptyFails ==
  [][(op' = "rmse" /\ args'[1] = <<>> /\ args'[2] = <<>>) =>
       /\ out'.exc = "ZeroDivisionError"
       /\ UNCHANGED <<m, b, history>>]_vars

\* C9 witness: rmse([], []) has been called and raised.
C9_Witness ==
  op = "rmse" /\ args = << <<>>, <<>> >> /\ out.exc = "ZeroDivisionError"

\* C10: predict, error, loss, gradient and rmse change nothing; step leaves
\* history unchanged; update_history leaves m and b unchanged.
C10_OnlyMutators ==
  [][/\ op' \in {"predict", "error", "loss", "gradient", "rmse"}
          => UNCHANGED <<m, b, history>>
     /\ op' = "step" => history' = history
     /\ op' = "update_history" => (m' = m /\ b' = b)]_vars

\* C10 witness: a step taken with a record in history changed m and left the
\* record in place.
C10_Witness == op = "step" /\ Len(history) = 1 /\ history[1].m # m

====
